---------------------------- MODULE Spec2Model ----------------------------
(***************************************************************************)
(* A model of src/compiler/generator.ts: the code generator returned by    *)
(* createCodeGenerator().  The recorder (emit, labels, block scopes) is    *)
(* driven by a caller; buildFunctionBody replays the recording into the    *)
(* case clauses of the generated switch statement.                         *)
(***************************************************************************)
EXTENDS Integers, Sequences, FiniteSets, TLC

(***************************************************************************)
(* Bounds of the model.                                                    *)
(***************************************************************************)
\* Spec: the caller emits only while fewer than MaxOps operations are recorded,
\* and defines a label only while fewer than MaxLabels labels exist
MaxOps == 3
MaxLabels == 2
\* SpecTry: the caller emits only while it has emitted fewer than MaxTryOps
\* operations, and begins a block only while fewer than MaxTryBlocks exist
MaxTryOps == 2
MaxTryBlocks == 1
\* SpecBlocks: the caller emits only while fewer than MaxBlockOps operations
\* are recorded, and begins a block only while fewer than MaxBlocks exist
MaxBlockOps == 1
MaxBlocks == 2
\* SpecLocals: the caller declares a local only while fewer than MaxLocals exist
MaxLocals == 4
\* SpecLocations: the caller pushes a location only while fewer than MaxDepth
\* are saved, and emits only while fewer than MaxLocatedOps operations are recorded
MaxDepth == 2
MaxLocatedOps == 2

(***************************************************************************)
(* Values of the program.                                                  *)
(***************************************************************************)
\* enum ExceptionBlockState
Try == 0
Catch == 1
Finally == 2
Done == 3

\* enum BlockKind, enum BlockAction and the opcodes, by name
BlockKinds == {"Exception", "ScriptBreak", "Break", "ScriptContinue", "Continue"}
OpCodes == {"Statement", "Assign", "Break", "BrTrue", "BrFalse", "Yield",
            "Return", "Throw", "Endfinally"}

\* a label slot of a fresh label: labels[label] = -1
Unbound == -1
\* the breakLabel and continueLabel of the script-level blocks
ScriptLabel == -1
\* the value of a field that was never assigned, and of a missing return
Undefined == -2
\* findBreakTarget's answer when no block matches
NoTarget == 0
\* `exception.catchLabel > 0 && createLabel(..)` when the label is absent
FalseSlot == 0
\* an absent (undefined or empty, both falsy) string
NoText == ""

\* an absent (undefined) text range
NoLocation == ""

\* the label texts, nodes and expressions the caller passes
Texts == {"outer"}
Nodes == {"a", "b"}
Exprs == {"42"}
Variables == {"e"}
\* the text ranges the caller passes
Locations == {"L1", "L2"}

VARIABLES
    operations,          \* operations[] with operationArguments[]: the opcode log
    nextLabelId,
    labels,              \* labels[label]: operation index, or -1
    labelNumbers,        \* labelNumbers[label]: case index, set by buildFunctionBody
    heap,                \* the block objects; blocks[] and blockStack[] refer to them
    blocks,              \* blocks[]: the block of each block event
    blockActions,        \* blockActions[]: "Open" or "Close"
    blockOffsets,        \* blockOffsets[]: operations.length at the event
    blockStack,          \* the live block stack, bottom first
    hasProtectedRegions,
    clauses,             \* the result of buildFunctionBody
    built,               \* whether the function has been built
    failed,              \* whether an assertion failed
    nextLocalId,
    locals,              \* the locals that the generator named
    namedLocals,         \* the locals that the caller named
    relatedLocation,     \* the current text range, or none
    locationStack        \* the locations that pushLocation saved

recorder == <<operations, nextLabelId, labels, heap, blocks, blockActions,
              blockOffsets, blockStack, hasProtectedRegions>>
output == <<labelNumbers, clauses, built>>
hoisted == <<nextLocalId, locals, namedLocals>>
located == <<relatedLocation, locationStack>>
vars == <<recorder, output, failed, hoisted, located>>

(***************************************************************************)
(* Operations and blocks.                                                  *)
(***************************************************************************)
\* createGeneratedNode(text, content); a node of the caller has no text
GeneratedNode(text, content) == [text |-> text, content |-> content]

CallerNode(name) == GeneratedNode(NoText, name)

\* an absent (undefined) node or expression
NoNode == CallerNode(NoText)

\* one entry of operations[] with its operationArguments[] and
\* operationLocations[]: a label argument (Break, BrTrue, BrFalse), a node
\* argument, and relatedLocation as it is when the operation is recorded
Operation(code, label, expr) ==
    [code |-> code, label |-> label, expr |-> expr, location |-> relatedLocation]

ExceptionBlock(startLabel, endLabel) ==
    [kind |-> "Exception", state |-> Try, startLabel |-> startLabel,
     catchVariable |-> NoText, catchLabel |-> Undefined,
     finallyLabel |-> Undefined, endLabel |-> endLabel,
     breakLabel |-> Undefined, continueLabel |-> Undefined,
     labelText |-> NoText, labelSymbol |-> NoText]

BreakBlock(kind, labelText, labelSymbol, breakLabel, continueLabel) ==
    [kind |-> kind, state |-> Undefined, startLabel |-> Undefined,
     catchVariable |-> NoText, catchLabel |-> Undefined,
     finallyLabel |-> Undefined, endLabel |-> Undefined,
     breakLabel |-> breakLabel, continueLabel |-> continueLabel,
     labelText |-> labelText, labelSymbol |-> labelSymbol]

\* emit's recording step: a Statement without a node records nothing
emitTo(ops, code, label, expr) ==
    IF code = "Statement" /\ expr = NoNode THEN ops
    ELSE Append(ops, Operation(code, label, expr))

\* defineLabel's effect on labels[]; the label it returns is the old nextLabelId
defineLabelIn(lbls) == Append(lbls, Unbound)

\* markLabel's effect on labels[]
markLabelIn(lbls, label, length) == [lbls EXCEPT ![label] = length]

peekBlock == IF blockStack = <<>> THEN Undefined ELSE blockStack[Len(blockStack)]

peekBlockKind == IF peekBlock = Undefined THEN NoText ELSE heap[peekBlock].kind

\* the labels the generator handed to the caller: the results of defineLabel,
\* beginExceptionBlock (endLabel), beginBreakBlock and beginContinueBlock
Held ==
    {l \in 2..Len(labels) :
        \A b \in 1..Len(heap) :
            l \notin {heap[b].startLabel, heap[b].catchLabel, heap[b].finallyLabel}}

(***************************************************************************)
(* The recorder: labels.                                                   *)
(***************************************************************************)
defineLabel ==
    /\ ~built /\ ~failed
    /\ nextLabelId' = nextLabelId + 1
    /\ labels' = defineLabelIn(labels)
    /\ UNCHANGED <<operations, heap, blocks, blockActions, blockOffsets,
                   blockStack, hasProtectedRegions, output, failed, hoisted, located>>

markLabel(label) ==
    /\ ~built /\ ~failed
    /\ labels' = markLabelIn(labels, label, Len(operations))
    /\ UNCHANGED <<operations, nextLabelId, heap, blocks, blockActions,
                   blockOffsets, blockStack, hasProtectedRegions, output, failed, hoisted, located>>

(***************************************************************************)
(* The recorder: the block stack and the block-event log.                  *)
(***************************************************************************)
\* beginBlock: the new block object is heap[Len(heap) + 1]
\* mutant: the Open event is logged and the block is not pushed
beginBlockNotPushed(block) ==
    /\ heap' = Append(heap, block)
    /\ blockActions' = Append(blockActions, "Open")
    /\ blockOffsets' = Append(blockOffsets, Len(operations))
    /\ blocks' = Append(blocks, Len(heap) + 1)
    /\ blockStack' = blockStack

beginBlock(block) ==
    /\ heap' = Append(heap, block)
    /\ blockActions' = Append(blockActions, "Open")
    /\ blockOffsets' = Append(blockOffsets, Len(operations))
    /\ blocks' = Append(blocks, Len(heap) + 1)
    /\ blockStack' = Append(blockStack, Len(heap) + 1)

\* mutant: the Close event is logged for the bottom block of the live stack
endBlockLogsBottom ==
    /\ blockStack' = SubSeq(blockStack, 1, Len(blockStack) - 1)
    /\ blockActions' = Append(blockActions, "Close")
    /\ blockOffsets' = Append(blockOffsets, Len(operations))
    /\ blocks' = Append(blocks, blockStack[1])

\* endBlock: pops the live stack and logs the Close event; the callers assert
\* that the stack is not empty
endBlock ==
    /\ blockStack' = SubSeq(blockStack, 1, Len(blockStack) - 1)
    /\ blockActions' = Append(blockActions, "Close")
    /\ blockOffsets' = Append(blockOffsets, Len(operations))
    /\ blocks' = Append(blocks, blockStack[Len(blockStack)])

\* Debug.assert with a false expression: compilation halts, nothing is recorded
assertionFailed ==
    /\ failed' = TRUE
    /\ UNCHANGED <<recorder, output, hoisted, located>>

\* mutant: the assertion looks for a block, not for its kind
topIsABlock(kind) == blockStack # <<>>

\* Debug.assert(peekBlockKind() === BlockKind.<kind>)
topIs(kind) == peekBlockKind = kind

\* mutant: the assertion of beginFinallyBlock in beginCatchBlock
catchAllowedBeforeFinally(exception) == exception.state < Finally

\* Debug.assert(exception.state < ExceptionBlockState.Catch)
catchAllowed(exception) == exception.state < Catch

\* Debug.assert(exception.state < ExceptionBlockState.Finally)
finallyAllowed(exception) == exception.state < Finally

beginExceptionBlock ==
    /\ ~built /\ ~failed
    /\ LET startLabel == nextLabelId
           endLabel == nextLabelId + 1
       IN /\ nextLabelId' = nextLabelId + 2
          /\ labels' = markLabelIn(defineLabelIn(defineLabelIn(labels)),
                                   startLabel, Len(operations))
          /\ beginBlock(ExceptionBlock(startLabel, endLabel))
    /\ hasProtectedRegions' = TRUE
    /\ UNCHANGED <<operations, output, failed, hoisted, located>>

beginCatchBlock(variable) ==
    /\ ~built /\ ~failed
    /\ IF topIs("Exception") /\ catchAllowed(heap[peekBlock])
       THEN /\ LET exception == heap[peekBlock]
                   catchLabel == nextLabelId
                   broken == emitTo(operations, "Break", exception.endLabel, NoNode)
               IN /\ nextLabelId' = nextLabelId + 1
                  /\ labels' = markLabelIn(defineLabelIn(labels), catchLabel, Len(broken))
                  /\ heap' = [heap EXCEPT ![peekBlock].state = Catch,
                                          ![peekBlock].catchVariable = variable,
                                          ![peekBlock].catchLabel = catchLabel]
                  /\ operations' = emitTo(broken, "Statement", Undefined,
                                          GeneratedNode("${variable} = __state.error;", variable))
            /\ UNCHANGED <<blocks, blockActions, blockOffsets, blockStack,
                           hasProtectedRegions, output, failed, hoisted, located>>
       ELSE assertionFailed

beginFinallyBlock ==
    /\ ~built /\ ~failed
    /\ IF topIs("Exception") /\ finallyAllowed(heap[peekBlock])
       THEN /\ LET exception == heap[peekBlock]
                   finallyLabel == nextLabelId
                   broken == emitTo(operations, "Break", exception.endLabel, NoNode)
               IN /\ operations' = broken
                  /\ nextLabelId' = nextLabelId + 1
                  /\ labels' = markLabelIn(defineLabelIn(labels), finallyLabel, Len(broken))
                  /\ heap' = [heap EXCEPT ![peekBlock].state = Finally,
                                          ![peekBlock].finallyLabel = finallyLabel]
            /\ UNCHANGED <<blocks, blockActions, blockOffsets, blockStack,
                           hasProtectedRegions, output, failed, hoisted, located>>
       ELSE assertionFailed

endExceptionBlock ==
    /\ ~built /\ ~failed
    /\ IF topIs("Exception")
       THEN /\ endBlock
            /\ LET exception == heap[peekBlock]
                   ended == IF exception.state < Finally
                            THEN emitTo(operations, "Break", exception.endLabel, NoNode)
                            ELSE emitTo(operations, "Endfinally", Undefined, NoNode)
               IN /\ operations' = ended
                  /\ labels' = markLabelIn(labels, exception.endLabel, Len(ended))
                  /\ heap' = [heap EXCEPT ![peekBlock].state = Done]
            /\ UNCHANGED <<nextLabelId, hasProtectedRegions, output, failed, hoisted, located>>
       ELSE assertionFailed

beginScriptContinueBlock(labelText) ==
    /\ ~built /\ ~failed
    /\ beginBlock(BreakBlock("ScriptContinue", labelText, NoText,
                             ScriptLabel, ScriptLabel))
    /\ UNCHANGED <<operations, nextLabelId, labels, hasProtectedRegions, output, failed, hoisted, located>>

endScriptContinueBlock ==
    /\ ~built /\ ~failed
    /\ IF topIs("ScriptContinue")
       THEN /\ endBlock
            /\ UNCHANGED <<operations, nextLabelId, labels, heap, hasProtectedRegions,
                           output, failed, hoisted, located>>
       ELSE assertionFailed

\* the text is stored in the field labelSymbol, not labelText
beginScriptBreakBlock(labelText) ==
    /\ ~built /\ ~failed
    /\ beginBlock(BreakBlock("ScriptBreak", NoText, labelText,
                             ScriptLabel, Undefined))
    /\ UNCHANGED <<operations, nextLabelId, labels, hasProtectedRegions, output, failed, hoisted, located>>

endScriptBreakBlock ==
    /\ ~built /\ ~failed
    /\ IF topIs("ScriptBreak")
       THEN /\ endBlock
            /\ UNCHANGED <<operations, nextLabelId, labels, heap, hasProtectedRegions,
                           output, failed, hoisted, located>>
       ELSE assertionFailed

beginContinueBlock(continueLabel, labelText) ==
    /\ ~built /\ ~failed
    /\ nextLabelId' = nextLabelId + 1
    /\ labels' = defineLabelIn(labels)
    /\ beginBlock(BreakBlock("Continue", labelText, NoText, nextLabelId,
                             continueLabel))
    /\ UNCHANGED <<operations, hasProtectedRegions, output, failed, hoisted, located>>

\* mutant: closing a block does not mark its break label
markBreakLabelNever(block) == labels

\* endContinueBlock and endBreakBlock: if (breakLabel > 0) markLabel(breakLabel)
markBreakLabel(block) ==
    IF block.breakLabel > 0
    THEN markLabelIn(labels, block.breakLabel, Len(operations))
    ELSE labels

endContinueBlock ==
    /\ ~built /\ ~failed
    /\ IF topIs("Continue")
       THEN /\ endBlock
            /\ labels' = markBreakLabel(heap[peekBlock])
            /\ UNCHANGED <<operations, nextLabelId, heap, hasProtectedRegions, output, failed, hoisted, located>>
       ELSE assertionFailed

beginBreakBlock(labelText) ==
    /\ ~built /\ ~failed
    /\ nextLabelId' = nextLabelId + 1
    /\ labels' = defineLabelIn(labels)
    /\ beginBlock(BreakBlock("Break", labelText, NoText, nextLabelId, Undefined))
    /\ UNCHANGED <<operations, hasProtectedRegions, output, failed, hoisted, located>>

endBreakBlock ==
    /\ ~built /\ ~failed
    /\ IF topIs("Break")
       THEN /\ endBlock
            /\ labels' = markBreakLabel(heap[peekBlock])
            /\ UNCHANGED <<operations, nextLabelId, heap, hasProtectedRegions, output, failed, hoisted, located>>
       ELSE assertionFailed

(***************************************************************************)
(* The recorder: break and continue targets.                               *)
(***************************************************************************)
supportsBreak(block) ==
    block.kind \in {"ScriptBreak", "ScriptContinue", "Break", "Continue"}

supportsContinue(block) == block.kind \in {"ScriptContinue", "Continue"}

\* the loop of findBreakTarget from blockStack[i] down to the bottom
RECURSIVE findBreakTargetFrom(_, _)
findBreakTargetFrom(i, labelText) ==
    IF i < 1 THEN NoTarget
    ELSE LET block == heap[blockStack[i]]
         IN IF supportsBreak(block)
               /\ (labelText = NoText \/ block.labelText = labelText)
            THEN block.breakLabel
            ELSE findBreakTargetFrom(i - 1, labelText)

findBreakTarget(labelText) == findBreakTargetFrom(Len(blockStack), labelText)

\* the loop of findContinueTarget; the function ends without a return
RECURSIVE findContinueTargetFrom(_, _)
findContinueTargetFrom(i, labelText) ==
    IF i < 1 THEN Undefined
    ELSE LET block == heap[blockStack[i]]
         IN IF supportsContinue(block)
               /\ (labelText = NoText \/ block.labelText = labelText)
            THEN block.continueLabel
            ELSE findContinueTargetFrom(i - 1, labelText)

findContinueTarget(labelText) == findContinueTargetFrom(Len(blockStack), labelText)

(***************************************************************************)
(* The recorder: operations.                                               *)
(***************************************************************************)
emit(code, label, expr) ==
    /\ ~built /\ ~failed
    /\ operations' = emitTo(operations, code, label, expr)
    /\ UNCHANGED <<nextLabelId, labels, heap, blocks, blockActions,
                   blockOffsets, blockStack, hasProtectedRegions, output, failed, hoisted, located>>

(***************************************************************************)
(* The locations.                                                          *)
(***************************************************************************)
\* setLocation's effect on relatedLocation: if (location) relatedLocation = location
setLocationIn(location) ==
    IF location # NoLocation THEN location ELSE relatedLocation

setLocation(location) ==
    /\ ~built /\ ~failed
    /\ relatedLocation' = setLocationIn(location)
    /\ UNCHANGED <<recorder, output, failed, hoisted, locationStack>>

pushLocation(location) ==
    /\ ~built /\ ~failed
    /\ locationStack' = Append(locationStack, relatedLocation)
    /\ relatedLocation' = setLocationIn(location)
    /\ UNCHANGED <<recorder, output, failed, hoisted>>

\* locationStack.pop() of an empty array is undefined, and the array stays empty
popLocation ==
    /\ ~built /\ ~failed
    /\ IF locationStack = <<>>
       THEN /\ relatedLocation' = setLocationIn(NoLocation)
            /\ locationStack' = locationStack
       ELSE /\ relatedLocation' = setLocationIn(locationStack[Len(locationStack)])
            /\ locationStack' = SubSeq(locationStack, 1, Len(locationStack) - 1)
    /\ UNCHANGED <<recorder, output, failed, hoisted>>

(***************************************************************************)
(* The locals.                                                             *)
(***************************************************************************)
Digits == <<"0", "1", "2", "3", "4", "5", "6", "7", "8", "9">>

\* the decimal digits of a number, as `"__l" + n` converts it
RECURSIVE NumberToString(_)
NumberToString(n) ==
    IF n < 10 THEN Digits[n + 1] ELSE NumberToString(n \div 10) \o Digits[(n % 10) + 1]

\* the name of declareLocal(): "__l" + (nextLocalId++)
generatedName(localId) == "__l" \o NumberToString(localId)

\* the effect of declareLocal on the three variables, for a name or for none
declareLocalIn(name) ==
    IF name # NoText
    THEN /\ namedLocals' = Append(namedLocals, GeneratedNode(name, NoText))
         /\ UNCHANGED <<nextLocalId, locals>>
    ELSE /\ nextLocalId' = nextLocalId + 1
         /\ locals' = Append(locals, GeneratedNode(generatedName(nextLocalId), NoText))
         /\ UNCHANGED namedLocals

declareLocal(name) ==
    /\ ~built /\ ~failed
    /\ declareLocalIn(name)
    /\ UNCHANGED <<recorder, output, failed, located>>

cacheExpression(node) ==
    /\ ~built /\ ~failed
    /\ declareLocalIn(NoText)
    /\ operations' = emitTo(operations, "Statement", Undefined,
                            GeneratedNode("${local} = ${node};",
                                          generatedName(nextLocalId) \o "," \o node))
    /\ UNCHANGED <<nextLabelId, labels, heap, blocks, blockActions,
                   blockOffsets, blockStack, hasProtectedRegions, output, failed,
                   located>>

\* buildLocals: the names of `var ${locals};`
buildLocals == namedLocals \o locals

(***************************************************************************)
(* buildFunctionBody.  Its local state is the record bs: clauses (each the *)
(* statements of one case; the case label is the clause's position - 1),   *)
(* statements (the first buffer, which no clause holds), labelNumbers,     *)
(* operationIndex, blockIndex and the two flags.  Once a clause exists,    *)
(* the buffer `statements` of the code is the last clause's.               *)
(***************************************************************************)
\* a statement of the output: its kind, the label or case number it names,
\* its node, the labels of a protected region, and the operationIndex at
\* which it was written
Statement(kind, label, expr, region, operationIndex) ==
    [kind |-> kind, label |-> label, expr |-> expr, region |-> region,
     op |-> operationIndex]

NoRegion == <<>>

writeStatement(bs, kind, label, expr, region) ==
    LET node == Statement(kind, label, expr, region, bs.operationIndex)
    IN IF bs.clauses = <<>>
       THEN [bs EXCEPT !.statements = Append(@, node)]
       ELSE [bs EXCEPT !.clauses[Len(bs.clauses)] = Append(@, node)]

writeAssign(bs, expr) == writeStatement(bs, "assign", Undefined, expr, NoRegion)

writeBreak(bs, label) ==
    writeStatement([bs EXCEPT !.instructionWasAbrupt = TRUE],
                   "break", label, NoNode, NoRegion)

writeBrTrue(bs, label, condition) ==
    writeStatement(bs, "brtrue", label, condition, NoRegion)

writeBrFalse(bs, label, condition) ==
    writeStatement(bs, "brfalse", label, condition, NoRegion)

\* mutant: a Yield that is not abrupt
writeYieldNotAbrupt(bs, expression) ==
    writeStatement(bs, "yield", Undefined, expression, NoRegion)

writeYield(bs, expression) ==
    writeStatement([bs EXCEPT !.instructionWasAbrupt = TRUE],
                   "yield", Undefined, expression, NoRegion)

writeReturn(bs, expression) ==
    writeStatement([bs EXCEPT !.instructionWasCompletion = TRUE],
                   "return", Undefined, expression, NoRegion)

writeThrow(bs, expression) ==
    writeStatement([bs EXCEPT !.instructionWasCompletion = TRUE],
                   "throw", Undefined, expression, NoRegion)

writeEndfinally(bs) ==
    writeStatement([bs EXCEPT !.instructionWasAbrupt = TRUE],
                   "endfinally", Undefined, NoNode, NoRegion)

\* mutant: the labels bound to operations.length are not looked at
labelsAtOperations(operationIndex) ==
    {label \in 1..Len(labels) :
        labels[label] = operationIndex /\ operationIndex < Len(operations)}

\* the labels of ensureLabels' loop that are bound to the operation index
labelsAt(operationIndex) == {label \in 1..Len(labels) : labels[label] = operationIndex}

\* mutant: the fix-up is written after a completion too
fallsThroughAfterCompletion(bs) ==
    ~bs.instructionWasAbrupt /\ bs.operationIndex > 0

\* "handle implicit fall-through"
fallsThrough(bs) ==
    /\ ~bs.instructionWasAbrupt
    /\ ~bs.instructionWasCompletion
    /\ bs.operationIndex > 0

\* mutant: every case of a function with protected regions initializes __state.trys
initializesTrysInEveryCase(labelNumber) == hasProtectedRegions

\* whether the new case initializes __state.trys
initializesTrys(labelNumber) == labelNumber = 0 /\ hasProtectedRegions

\* mutant: a case is numbered by the operation index it opens at
caseNumberIsOperationIndex(bs) == bs.operationIndex

\* the number of the case that ensureLabels opens: clauses.length
caseNumber(bs) == Len(bs.clauses)

ensureLabels(bs) ==
    LET labelNumber == caseNumber(bs)
        numbered == [bs EXCEPT !.labelNumbers =
                        [label \in DOMAIN @ |->
                            IF label \in labelsAt(bs.operationIndex)
                            THEN labelNumber ELSE @[label]]]
        fixed == IF fallsThrough(numbered)
                 THEN writeStatement(numbered, "label", labelNumber, NoNode, NoRegion)
                 ELSE numbered
        opened == [fixed EXCEPT !.clauses = Append(@, <<>>),
                                !.instructionWasAbrupt = FALSE,
                                !.instructionWasCompletion = FALSE]
    IN IF labelsAt(bs.operationIndex) = {} THEN bs
       ELSE IF initializesTrys(labelNumber)
            THEN writeStatement(opened, "trys", Undefined, NoNode, NoRegion)
            ELSE opened

\* mutant: no slot of a protected region is populated
regionSlotAbsent(label) == FalseSlot

\* `label > 0 && createLabel(label)`
regionSlot(label) == IF label > 0 THEN label ELSE FalseSlot

\* mutant: the finally label is pushed in the catch slot
protectedRegionFinallyFirst(exception) ==
    <<exception.startLabel, regionSlot(exception.finallyLabel),
      regionSlot(exception.catchLabel), exception.endLabel>>

\* the four labels of __state.trys.push([..])
protectedRegion(exception) ==
    <<exception.startLabel, regionSlot(exception.catchLabel),
      regionSlot(exception.finallyLabel), exception.endLabel>>

\* mutant: the Close event of an exception block pushes the region too
pushesRegionOnClose(blockIndex) == heap[blocks[blockIndex + 1]].kind = "Exception"

\* whether a block event writes __state.trys.push
pushesRegion(blockIndex) ==
    blockActions[blockIndex + 1] = "Open" /\ heap[blocks[blockIndex + 1]].kind = "Exception"

\* the loop over the block events at the head of writeOperation
RECURSIVE syncBlocks(_)
syncBlocks(bs) ==
    IF bs.blockIndex < Len(blockActions)
       /\ blockOffsets[bs.blockIndex + 1] <= bs.operationIndex
    THEN LET pushed == IF pushesRegion(bs.blockIndex)
                       THEN writeStatement(bs, "push", Undefined, NoNode,
                                protectedRegion(heap[blocks[bs.blockIndex + 1]]))
                       ELSE bs
         IN syncBlocks([pushed EXCEPT !.blockIndex = @ + 1])
    ELSE bs

\* mutant: only a completion ends the case early
terminatedEarlyByCompletion(bs) == bs.instructionWasCompletion

\* mutant: only an abrupt instruction ends the case early
terminatedEarlyByAbrupt(bs) == bs.instructionWasAbrupt

\* "early termination, nothing else to process in this label"
terminatedEarly(bs) == bs.instructionWasAbrupt \/ bs.instructionWasCompletion

writeOperation(bs, operation) ==
    LET synced == syncBlocks(bs)
        code == operation.code
    IN IF terminatedEarly(synced) THEN synced
       ELSE CASE code = "Statement" ->
                    writeStatement(synced, "statement", Undefined, operation.expr, NoRegion)
              [] code = "Assign" -> writeAssign(synced, operation.expr)
              [] code = "Break" -> writeBreak(synced, operation.label)
              [] code = "BrTrue" -> writeBrTrue(synced, operation.label, operation.expr)
              [] code = "BrFalse" -> writeBrFalse(synced, operation.label, operation.expr)
              [] code = "Yield" -> writeYield(synced, operation.expr)
              [] code = "Return" -> writeReturn(synced, operation.expr)
              [] code = "Throw" -> writeThrow(synced, operation.expr)
              [] code = "Endfinally" -> writeEndfinally(synced)

\* the loop over the operations, from bs.operationIndex on
RECURSIVE writeOperations(_)
writeOperations(bs) ==
    IF bs.operationIndex < Len(operations)
    THEN LET written == writeOperation(ensureLabels(bs), operations[bs.operationIndex + 1])
         IN writeOperations([written EXCEPT !.operationIndex = @ + 1])
    ELSE bs

\* mutant: no synthetic return after an abrupt instruction either
returnsAtEndUnlessAbrupt(bs) ==
    ~bs.instructionWasCompletion /\ ~bs.instructionWasAbrupt

\* whether the synthetic return ["return"] is appended
returnsAtEnd(bs) == ~bs.instructionWasCompletion

buildFunctionBody ==
    LET start == [clauses |-> <<>>, statements |-> <<>>,
                  labelNumbers |-> [label \in 1..Len(labels) |-> Undefined],
                  operationIndex |-> 0, blockIndex |-> 0,
                  instructionWasAbrupt |-> FALSE,
                  instructionWasCompletion |-> FALSE]
        synced == ensureLabels(writeOperations(start))
    IN IF returnsAtEnd(synced) THEN writeReturn(synced, NoNode) ELSE synced

\* buildFunctionBody's loop leaves the location of the last operation in
\* relatedLocation
locationAfterBuild ==
    IF operations = <<>> THEN relatedLocation ELSE operations[Len(operations)].location

\* buildGeneratorFunction and buildAsyncFunction wrap the same body
buildGeneratorFunction ==
    /\ ~built /\ ~failed
    /\ built' = TRUE
    /\ LET body == buildFunctionBody
       IN /\ clauses' = body.clauses
          /\ labelNumbers' = body.labelNumbers
    /\ relatedLocation' = locationAfterBuild
    /\ UNCHANGED <<recorder, failed, hoisted, locationStack>>

buildAsyncFunction ==
    /\ ~built /\ ~failed
    /\ built' = TRUE
    /\ LET body == buildFunctionBody
       IN /\ clauses' = body.clauses
          /\ labelNumbers' = body.labelNumbers
    /\ relatedLocation' = locationAfterBuild
    /\ UNCHANGED <<recorder, failed, hoisted, locationStack>>

\* mutant: the entry label is defined and not marked
InitEntryNotMarked ==
    /\ operations = <<>>
    /\ nextLabelId = 2
    /\ labels = defineLabelIn(<<>>)
    /\ labelNumbers = <<>>
    /\ heap = <<>>
    /\ blocks = <<>>
    /\ blockActions = <<>>
    /\ blockOffsets = <<>>
    /\ blockStack = <<>>
    /\ hasProtectedRegions = FALSE
    /\ clauses = <<>>
    /\ built = FALSE
    /\ failed = FALSE
    /\ nextLocalId = 0
    /\ locals = <<>>
    /\ namedLocals = <<>>
    /\ relatedLocation = NoLocation
    /\ locationStack = <<>>

Init ==
    /\ operations = <<>>
    /\ nextLabelId = 2
    /\ labels = markLabelIn(defineLabelIn(<<>>), 1, 0)
    /\ labelNumbers = <<>>
    /\ heap = <<>>
    /\ blocks = <<>>
    /\ blockActions = <<>>
    /\ blockOffsets = <<>>
    /\ blockStack = <<>>
    /\ hasProtectedRegions = FALSE
    /\ clauses = <<>>
    /\ built = FALSE
    /\ failed = FALSE
    /\ nextLocalId = 0
    /\ locals = <<>>
    /\ namedLocals = <<>>
    /\ relatedLocation = NoLocation
    /\ locationStack = <<>>

(***************************************************************************)
(* The callers.  A caller passes the labels it was handed.                 *)
(***************************************************************************)
\* Spec: a caller that records operations and labels, and no blocks
CallerEmits ==
    \/ \E node \in {"a", NoText} : emit("Statement", Undefined, CallerNode(node))
    \/ \E expr \in Exprs : emit("Assign", Undefined, CallerNode(expr))
    \/ \E label \in Held : emit("Break", label, NoNode)
    \/ \E code \in {"BrTrue", "BrFalse"}, label \in Held, expr \in Exprs :
            emit(code, label, CallerNode(expr))
    \/ \E code \in {"Yield", "Return"}, expr \in Exprs \union {NoText} :
            emit(code, Undefined, CallerNode(expr))
    \/ \E expr \in Exprs : emit("Throw", Undefined, CallerNode(expr))
    \/ emit("Endfinally", Undefined, NoNode)

Next ==
    \/ Len(labels) < MaxLabels /\ defineLabel
    \/ \E label \in Held : markLabel(label)
    \/ Len(operations) < MaxOps /\ CallerEmits
    \/ buildGeneratorFunction

Spec == Init /\ [][Next]_vars

\* SpecTry: a caller that records try statements and unlabelled break blocks
TryEmits ==
    \/ \E node \in Nodes : emit("Statement", Undefined, CallerNode(node))
    \/ emit("Return", Undefined, NoNode)

\* the operations that the caller recorded with emit, not a block function
CallerOperations ==
    {index \in 0..(Len(operations) - 1) :
        \/ operations[index + 1].code = "Return"
        \/ /\ operations[index + 1].code = "Statement"
           /\ operations[index + 1].expr.text = NoText}

NextTry ==
    \/ Len(heap) < MaxTryBlocks /\ beginExceptionBlock
    \/ \E variable \in Variables : beginCatchBlock(variable)
    \/ beginFinallyBlock
    \/ endExceptionBlock
    \/ Len(heap) < MaxTryBlocks /\ beginBreakBlock(NoText)
    \/ endBreakBlock
    \/ Cardinality(CallerOperations) < MaxTryOps /\ TryEmits
    \/ buildAsyncFunction

SpecTry == Init /\ [][NextTry]_vars

\* SpecBlocks: a caller that opens and closes blocks of every kind; it defines
\* a label while it holds none, labels the script blocks, and builds the
\* function once every block is closed
NextBlocks ==
    \/ Held = {} /\ defineLabel
    \/ Len(heap) < MaxBlocks /\ beginExceptionBlock
    \/ \E variable \in Variables : beginCatchBlock(variable)
    \/ beginFinallyBlock
    \/ endExceptionBlock
    \/ Len(heap) < MaxBlocks /\ \E labelText \in Texts \union {NoText} :
            \/ labelText # NoText /\ beginScriptContinueBlock(labelText)
            \/ labelText # NoText /\ beginScriptBreakBlock(labelText)
            \/ beginBreakBlock(labelText)
            \/ \E continueLabel \in Held : beginContinueBlock(continueLabel, labelText)
    \/ endScriptContinueBlock
    \/ endScriptBreakBlock
    \/ endContinueBlock
    \/ endBreakBlock
    \/ Len(operations) < MaxBlockOps /\ emit("Statement", Undefined, CallerNode("a"))
    \/ blockStack = <<>> /\ buildGeneratorFunction

SpecBlocks == Init /\ [][NextBlocks]_vars

\* SpecLocals: a caller that declares locals and caches expressions
LocalNames == {"x", "__l0", "__l1"}

NextLocals ==
    \/ Len(buildLocals) < MaxLocals /\ \E name \in LocalNames \union {NoText} :
            declareLocal(name)
    \/ Len(buildLocals) < MaxLocals /\ \E node \in Exprs : cacheExpression(node)

SpecLocals == Init /\ [][NextLocals]_vars

\* SpecLocations: a caller that sets, pushes and pops locations and emits
NextLocations ==
    \/ \E location \in Locations \union {NoLocation} : setLocation(location)
    \/ Len(locationStack) < MaxDepth /\ \E location \in Locations \union {NoLocation} :
            pushLocation(location)
    \/ popLocation
    \/ Len(operations) < MaxLocatedOps /\ emit("Statement", Undefined, CallerNode("a"))

SpecLocations == Init /\ [][NextLocations]_vars

(***************************************************************************)
(* Reading a recording and the output built from it.  Operation indices    *)
(* and case numbers count from 0, as in the code.                          *)
(***************************************************************************)
AbruptCodes == {"Break", "Yield", "Endfinally"}
CompletionCodes == {"Return", "Throw"}
LeavingCodes == AbruptCodes \union CompletionCodes

\* the kinds of statement that writeOperation's dispatch writes
OpcodeKinds == {"statement", "assign", "break", "brtrue", "brfalse", "yield",
                "return", "throw", "endfinally"}

\* the operation recorded at an operation index
OperationAt(index) == operations[index + 1]

\* the statements of a case
CaseStatements(N) == clauses[N + 1]

\* the operation indices to which some label is bound
BoundIndices == {labels[label] : label \in 1..Len(labels)} \ {Unbound}

\* the number of the case that opens at a bound operation index
CaseNumberAt(index) == Cardinality({k \in BoundIndices : k < index})

\* the operation index at which case N opens
CaseStart(N) == CHOOSE k \in BoundIndices : CaseNumberAt(k) = N

\* the operation index at which the case holding an operation opens
CaseStartOf(index) ==
    CHOOSE k \in BoundIndices :
        k <= index /\ \A m \in BoundIndices : m <= index => m <= k

\* whether an operation contributed a statement to the output
Written(index) ==
    \E c \in 1..Len(clauses) : \E i \in 1..Len(clauses[c]) :
        clauses[c][i].op = index /\ clauses[c][i].kind \in OpcodeKinds

\* whether case N holds the fix-up __state.label = N + 1
HasFixup(N) ==
    \E i \in 1..Len(CaseStatements(N)) :
        CaseStatements(N)[i].kind = "label" /\ CaseStatements(N)[i].label = N + 1

\* the last statement of the last case
LastStatement == clauses[Len(clauses)][Len(clauses[Len(clauses)])]

(***************************************************************************)
(* C1, as claimed: on a fresh generator, recording only emit(Yield, 42)    *)
(* and building gives exactly two cases, case 0 holding only               *)
(* return ["yield", 42] and case 1 holding only return ["return"], with    *)
(* no __state.label fix-up.  It fails: no label follows the Yield, so no   *)
(* second case is opened.                                                  *)
(***************************************************************************)
Yield42 == Operation("Yield", Undefined, CallerNode("42"))

\* the recording is emit(Yield, 42) and nothing else
OnlyYield42 == operations = <<Yield42>> /\ nextLabelId = 2

\* the recording is defineLabel, emit(Yield, 42), markLabel and nothing else
Yield42ThenLabel == operations = <<Yield42>> /\ labels = <<0, 1>>

YieldCase == <<Statement("yield", Undefined, CallerNode("42"), NoRegion, 0)>>
ReturnCase == <<Statement("return", Undefined, NoNode, NoRegion, 1)>>

C1_SingleYieldTwoCases ==
    (built /\ OnlyYield42) => (clauses = <<YieldCase, ReturnCase>> /\ ~HasFixup(0))

(***************************************************************************)
(* C1, amended: recording only emit(Yield, 42) and building gives one      *)
(* case, case 0, whose statements are return ["yield", 42] and then        *)
(* return ["return"]; the two cases of the claim, without a fix-up, are    *)
(* built when the caller also marks a label after the Yield.               *)
(***************************************************************************)
C1_SingleYield ==
    /\ (built /\ OnlyYield42) => clauses = <<YieldCase \o ReturnCase>>
    /\ (built /\ Yield42ThenLabel) =>
            (clauses = <<YieldCase, ReturnCase>> /\ ~HasFixup(0))

C1_Witness == built /\ OnlyYield42 /\ Len(clauses) = 1

(***************************************************************************)
(* C2, as claimed: the fix-up __state.label = N+1 is in case N iff the     *)
(* last operation recorded before the label that opens case N+1 is neither *)
(* abrupt nor a completion.  It fails when that operation is dead code.    *)
(***************************************************************************)
C2_LastRecordedDecides ==
    built =>
        \A N \in 0..(Len(clauses) - 2) :
            HasFixup(N) <=> OperationAt(CaseStart(N + 1) - 1).code \notin LeavingCodes

(***************************************************************************)
(* C2, amended: the fix-up __state.label = N+1 is in case N iff none of    *)
(* the operations recorded in case N is abrupt or a completion.            *)
(***************************************************************************)
C2_FixupIffNoLeavingOperation ==
    built =>
        \A N \in 0..(Len(clauses) - 2) :
            HasFixup(N) <=>
                \A index \in CaseStart(N)..(CaseStart(N + 1) - 1) :
                    OperationAt(index).code \notin LeavingCodes

\* a case with a fix-up after two operations, followed by another case
C2_Witness ==
    /\ built
    /\ \E N \in 0..(Len(clauses) - 2) :
          HasFixup(N) /\ CaseStart(N + 1) - CaseStart(N) >= 2

(***************************************************************************)
(* C3: an operation contributes a statement to the output iff no abrupt    *)
(* or completion operation was recorded before it since the operation      *)
(* index to which a label is bound: operations after an abrupt or          *)
(* completion operation are dropped up to the next bound label, and        *)
(* written again from there on.                                            *)
(***************************************************************************)
C3_DeadCodeSuppressed ==
    built =>
        \A index \in 0..(Len(operations) - 1) :
            Written(index) <=>
                \A before \in CaseStartOf(index)..(index - 1) :
                    OperationAt(before).code \notin LeavingCodes

\* an abrupt operation, a dropped operation, then a label and a written one
C3_Witness ==
    /\ built
    /\ \E index \in 0..(Len(operations) - 3) :
          /\ OperationAt(index).code \in LeavingCodes
          /\ Written(index)
          /\ ~Written(index + 1)
          /\ index + 2 \in BoundIndices
          /\ Written(index + 2)

(***************************************************************************)
(* C4: the last statement of the last case is a return of a "return",      *)
(* "break", "endfinally" or "yield" tuple, or a throw; and the synthetic    *)
(* return ["return"] is appended exactly when the completion flag is not   *)
(* set after the trailing label sync, that is, when the last case did not  *)
(* write a Return or Throw operation.                                      *)
(***************************************************************************)
\* whether the last case wrote a Return or a Throw
LastCaseCompleted ==
    \E index \in CaseStartOf(Len(operations))..(Len(operations) - 1) :
        /\ OperationAt(index).code \in CompletionCodes
        /\ \A before \in CaseStartOf(Len(operations))..(index - 1) :
              OperationAt(before).code \notin LeavingCodes

\* the synthetic return is the statement written at operationIndex = operations.length
SyntheticReturn ==
    \E c \in 1..Len(clauses) : \E i \in 1..Len(clauses[c]) :
        clauses[c][i].kind = "return" /\ clauses[c][i].op = Len(operations)

C4_BodyEndsExplicitly ==
    built =>
        /\ clauses # <<>>
        /\ clauses[Len(clauses)] # <<>>
        /\ LastStatement.kind \in {"return", "break", "endfinally", "throw", "yield"}
        /\ SyntheticReturn <=> ~LastCaseCompleted
        /\ SyntheticReturn =>
              LastStatement = Statement("return", Undefined, NoNode, NoRegion,
                                        Len(operations))

\* the recording ends with an abrupt operation, and the synthetic return follows it
C4_Witness ==
    /\ built
    /\ operations # <<>>
    /\ OperationAt(Len(operations) - 1).code \in AbruptCodes
    /\ Written(Len(operations) - 1)
    /\ SyntheticReturn
    /\ Len(clauses[Len(clauses)]) >= 2

(***************************************************************************)
(* C5: when every exception block is closed before the function is built,  *)
(* each exception block gives exactly one __state.trys.push([start, catch, *)
(* finally, end]), in the case labelNumbers[startLabel]; its catch slot is *)
(* a label iff beginCatchBlock was called on the block, its finally slot   *)
(* iff beginFinallyBlock was; Close events and the Open events of other    *)
(* blocks write nothing.                                                   *)
(***************************************************************************)
ExceptionBlocks == {b \in 1..Len(heap) : heap[b].kind = "Exception"}

\* the places <<clause, statement>> of the __state.trys.push statements
Pushes ==
    {place \in (1..Len(clauses)) \X (1..Len(operations) + Len(blockActions) + 2) :
        /\ place[2] <= Len(clauses[place[1]])
        /\ clauses[place[1]][place[2]].kind = "push"}

PushesOf(exception) ==
    {place \in Pushes :
        clauses[place[1]][place[2]].region[1] = exception.startLabel}

\* beginCatchBlock stored the catch variable in the block
CatchBegun(exception) == exception.catchVariable # NoText

\* endExceptionBlock emitted Endfinally just before it marked endLabel
FinallyBegun(exception) ==
    OperationAt(labels[exception.endLabel] - 1).code = "Endfinally"

IsLabel(slot) == slot \in 1..Len(labels)

C5_OnePushPerExceptionBlock ==
    (built /\ \A b \in ExceptionBlocks : heap[b].state = Done) =>
        /\ \A b \in ExceptionBlocks :
              /\ Cardinality(PushesOf(heap[b])) = 1
              /\ \A place \in PushesOf(heap[b]) :
                    LET region == clauses[place[1]][place[2]].region
                    IN /\ place[1] - 1 = labelNumbers[heap[b].startLabel]
                       /\ region[4] = heap[b].endLabel
                       /\ IsLabel(region[2]) <=> CatchBegun(heap[b])
                       /\ IsLabel(region[3]) <=> FinallyBegun(heap[b])
                       /\ IsLabel(region[2]) => region[2] = heap[b].catchLabel
                       /\ IsLabel(region[3]) => region[3] = heap[b].finallyLabel
        /\ Cardinality(Pushes) = Cardinality(ExceptionBlocks)

\* a closed try/catch/finally whose push is not in case 0
C5_Witness ==
    /\ built
    /\ \E b \in ExceptionBlocks :
          /\ heap[b].state = Done
          /\ CatchBegun(heap[b])
          /\ FinallyBegun(heap[b])
          /\ labelNumbers[heap[b].startLabel] >= 1
          /\ Cardinality(PushesOf(heap[b])) = 1

(***************************************************************************)
(* C6, as claimed: after the function is built, every label returned by    *)
(* defineLabel either was marked and has a case number in                  *)
(* [0, clauses.length), or is referenced by no recorded Break, BrTrue or   *)
(* BrFalse.  It fails: nothing stops a caller from branching to a label    *)
(* it never marks.                                                         *)
(***************************************************************************)
Marked(label) == labels[label] # Unbound

Resolved(label) == labelNumbers[label] \in 0..(Len(clauses) - 1)

Referenced(label) ==
    \E index \in 0..(Len(operations) - 1) :
        /\ OperationAt(index).code \in {"Break", "BrTrue", "BrFalse"}
        /\ OperationAt(index).label = label

C6_MarkedOrUnreferenced ==
    built =>
        \A label \in 2..Len(labels) :
            (Marked(label) /\ Resolved(label)) \/ ~Referenced(label)

(***************************************************************************)
(* C6, amended: after the function is built, a label returned by           *)
(* defineLabel has a case number in [0, clauses.length) iff it was marked; *)
(* a label that was never marked has no case number, referenced or not.    *)
(***************************************************************************)
C6_ResolvedIffMarked ==
    built =>
        \A label \in 1..Len(labels) :
            IF Marked(label) THEN Resolved(label)
            ELSE labelNumbers[label] = Undefined

\* a referenced label marked after the last operation, and one never marked
C6_Witness ==
    /\ built
    /\ operations # <<>>
    /\ \E label \in 2..Len(labels) :
          Referenced(label) /\ labels[label] = Len(operations) /\ Resolved(label)

(***************************************************************************)
(* C7, as claimed: whenever the live block stack is empty, the block-event *)
(* log has as many Open as Close events, every Open event has exactly one  *)
(* Close event of the same block, at a strictly greater operation offset,  *)
(* and the pairs nest.  It fails: a block closed before any operation is   *)
(* recorded inside it has the same offset in both events.                  *)
(***************************************************************************)
Events == 1..Len(blockActions)
Opens == {i \in Events : blockActions[i] = "Open"}
Closes == {i \in Events : blockActions[i] = "Close"}

\* the Close events of the block that an Open event opened
ClosesOf(open) == {j \in Closes : blocks[j] = blocks[open]}

\* the Open/Close pairs nest: a block opened inside another closes inside it
Nested ==
    \A i \in Opens, k \in Opens : \A j \in ClosesOf(i), m \in ClosesOf(k) :
        (i < k /\ k < j) => m < j

Balanced ==
    /\ Cardinality(Opens) = Cardinality(Closes)
    /\ \A j \in Closes : \E i \in Opens : blocks[i] = blocks[j] /\ i < j
    /\ \A i \in Opens : Cardinality(ClosesOf(i)) = 1 /\ \A j \in ClosesOf(i) : i < j
    /\ Nested

C7_CloseAtGreaterOffset ==
    blockStack = <<>> =>
        /\ Balanced
        /\ \A i \in Opens : \A j \in ClosesOf(i) : blockOffsets[i] < blockOffsets[j]

(***************************************************************************)
(* C7, amended: whenever the live block stack is empty, the log has as     *)
(* many Open as Close events, every Open event has exactly one Close event *)
(* of the same block, later in the log and at a greater or equal operation *)
(* offset, and the pairs nest.                                             *)
(***************************************************************************)
C7_BalancedBlocks ==
    blockStack = <<>> =>
        /\ Balanced
        /\ \A i \in Opens : \A j \in ClosesOf(i) : blockOffsets[i] <= blockOffsets[j]

\* two nested blocks, both closed, one of them at the offset it was opened at
C7_Witness ==
    /\ blockStack = <<>>
    /\ \E i \in Opens, k \in Opens : \E j \in ClosesOf(i), m \in ClosesOf(k) :
          /\ i < k /\ k < m /\ m < j
          /\ blockOffsets[k] = blockOffsets[m]
          /\ blockOffsets[i] < blockOffsets[j]

(***************************************************************************)
(* C8: the state of an exception block only moves up Try < Catch <         *)
(* Finally < Done: a block starts in Try, beginCatchBlock acts only on a   *)
(* block in state Try, beginFinallyBlock only in Try or Catch, and a block *)
(* in state Done never changes again.                                      *)
(***************************************************************************)
C8_StateStep ==
    /\ \A b \in 1..Len(heap) :
          heap[b].kind = "Exception" =>
              /\ heap'[b].kind = "Exception"
              /\ heap'[b].state # heap[b].state => heap'[b].state > heap[b].state
              /\ heap'[b].catchLabel # heap[b].catchLabel =>
                    heap[b].state = Try /\ heap'[b].state = Catch
              /\ heap'[b].finallyLabel # heap[b].finallyLabel =>
                    heap[b].state \in {Try, Catch} /\ heap'[b].state = Finally
              /\ heap[b].state = Done => heap'[b] = heap[b]
    /\ \A b \in (Len(heap) + 1)..Len(heap') :
          heap'[b].kind = "Exception" => heap'[b].state = Try

C8_ExceptionStateIncreases == [][C8_StateStep]_vars

\* a block that went through Try, Catch, Finally and Done
C8_Witness ==
    \E b \in ExceptionBlocks :
        heap[b].state = Done /\ heap[b].catchLabel > 0 /\ heap[b].finallyLabel > 0

(***************************************************************************)
(* C9: for every live block stack and label text t, findBreakTarget(t) is  *)
(* the breakLabel of the topmost Break, Continue, ScriptBreak or           *)
(* ScriptContinue block whose label text, as passed to its begin*Block     *)
(* call, is t, and findBreakTarget() is the breakLabel of the topmost      *)
(* block of these kinds; script-level blocks match like the others.        *)
(***************************************************************************)
\* the label text that was passed to the begin*Block call of a block
PassedText(block) ==
    IF block.kind = "ScriptBreak" THEN block.labelSymbol ELSE block.labelText

\* the positions in the live stack of the blocks of some kinds that match a text
Matching(kinds, labelText) ==
    {i \in 1..Len(blockStack) :
        /\ heap[blockStack[i]].kind \in kinds
        /\ (labelText = NoText \/ PassedText(heap[blockStack[i]]) = labelText)}

Topmost(positions) == CHOOSE i \in positions : \A k \in positions : k <= i

BreakKinds == {"Break", "Continue", "ScriptBreak", "ScriptContinue"}
ContinueKinds == {"Continue", "ScriptContinue"}

C9_BreakTargetIsTopmostMatch ==
    \A labelText \in Texts \union {NoText} :
        Matching(BreakKinds, labelText) # {} =>
            findBreakTarget(labelText) =
                heap[blockStack[Topmost(Matching(BreakKinds, labelText))]].breakLabel

(***************************************************************************)
(* C10: findContinueTarget(t) is the continueLabel of the topmost Continue *)
(* or ScriptContinue block of the live stack that matches, and 0 when no   *)
(* block of the live stack matches, as findBreakTarget is.                 *)
(***************************************************************************)
C10_ContinueTargetOrZero ==
    \A labelText \in Texts \union {NoText} :
        findContinueTarget(labelText) =
            IF Matching(ContinueKinds, labelText) = {} THEN NoTarget
            ELSE heap[blockStack[Topmost(Matching(ContinueKinds, labelText))]].continueLabel

(***************************************************************************)
(* C11: beginCatchBlock, beginFinallyBlock, endExceptionBlock,             *)
(* endBreakBlock, endContinueBlock, endScriptBreakBlock and                *)
(* endScriptContinueBlock fail an assertion whenever the top of the live   *)
(* block stack is not a block of the kind they require, the empty stack    *)
(* included, and then nothing is recorded: the opcode log, the label       *)
(* table, the live stack and the block-event log are unchanged.            *)
(***************************************************************************)
\* a step of one of the seven functions with a top block of another kind
WrongKindStep ==
    \/ peekBlockKind # "Exception" /\ \E variable \in Variables : beginCatchBlock(variable)
    \/ peekBlockKind # "Exception" /\ beginFinallyBlock
    \/ peekBlockKind # "Exception" /\ endExceptionBlock
    \/ peekBlockKind # "Break" /\ endBreakBlock
    \/ peekBlockKind # "Continue" /\ endContinueBlock
    \/ peekBlockKind # "ScriptBreak" /\ endScriptBreakBlock
    \/ peekBlockKind # "ScriptContinue" /\ endScriptContinueBlock

C11_Step ==
    WrongKindStep =>
        /\ failed'
        /\ UNCHANGED <<operations, nextLabelId, labels, blockStack,
                       blocks, blockActions, blockOffsets, heap>>

C11_WrongKindFails == [][C11_Step]_vars

\* an assertion failed over a block of a kind that no function asserts after an operation
C11_Witness ==
    /\ failed
    /\ blockStack # <<>>
    /\ peekBlockKind # "Exception"
    /\ operations # <<>>

(***************************************************************************)
(* C12: case numbers follow the operation order.  For marked labels L1 and *)
(* L2, labels[L1] < labels[L2] implies labelNumbers[L1] < labelNumbers[L2],*)
(* and labels bound to the same operation index have the same case number; *)
(* the case numbers in use are exactly 0..clauses.length-1, and the        *)
(* statements of a case were written between the operation index of its    *)
(* labels and that of the labels of the next case.                         *)
(***************************************************************************)
MarkedLabels == {label \in 1..Len(labels) : Marked(label)}

\* the operationIndex values at which the statements of case N were written
WrittenAt(N) == {CaseStatements(N)[i].op : i \in 1..Len(CaseStatements(N))}

C12_CaseNumbersFollowOperations ==
    built =>
        /\ \A L1 \in MarkedLabels, L2 \in MarkedLabels :
            /\ labels[L1] < labels[L2] => labelNumbers[L1] < labelNumbers[L2]
            /\ labels[L1] = labels[L2] => labelNumbers[L1] = labelNumbers[L2]
        /\ {labelNumbers[label] : label \in MarkedLabels} = 0..(Len(clauses) - 1)
        /\ \A L1 \in MarkedLabels, L2 \in MarkedLabels :
            \A index \in WrittenAt(labelNumbers[L1]) :
                /\ labels[L1] <= index
                /\ labelNumbers[L2] = labelNumbers[L1] + 1 => index <= labels[L2]

\* two labels bound to one operation index and a third bound to a later one
C12_Witness ==
    /\ built
    /\ Len(clauses) >= 3
    /\ \E L1 \in MarkedLabels, L2 \in MarkedLabels, L3 \in MarkedLabels :
        /\ L1 # L2
        /\ labels[L1] = labels[L2]
        /\ labels[L2] < labels[L3]
        /\ labelNumbers[L3] = labelNumbers[L2] + 1

(***************************************************************************)
(* C13: on a fresh generator, the recording beginExceptionBlock;           *)
(* Statement(a); beginFinallyBlock; Statement(b); endExceptionBlock builds *)
(* exactly three cases: case 0 is __state.trys = [], then                  *)
(* __state.trys.push([0, <absent>, 1, 2]), a, return ["break", 2]; case 1  *)
(* is b, return ["endfinally"]; case 2 is return ["return"]; no case holds *)
(* a fix-up.                                                               *)
(***************************************************************************)
\* a generated label as it is printed: the case number of the label
CaseOf(label) == labelNumbers[label]

\* a slot of a protected region as it is printed
SlotOf(slot) == IF slot = FalseSlot THEN Undefined ELSE CaseOf(slot)

\* a statement of the output as it is printed
Printed(statement) ==
    [kind |-> statement.kind,
     label |-> IF statement.kind \in {"break", "brtrue", "brfalse"}
               THEN CaseOf(statement.label) ELSE statement.label,
     expr |-> statement.expr,
     region |-> [k \in DOMAIN statement.region |-> SlotOf(statement.region[k])]]

PrintedCase(N) == [i \in DOMAIN CaseStatements(N) |-> Printed(CaseStatements(N)[i])]

\* a printed statement without a label, a node or a region
Plain(kind) == [kind |-> kind, label |-> Undefined, expr |-> NoNode, region |-> NoRegion]

PrintedNode(name) == [Plain("statement") EXCEPT !.expr = CallerNode(name)]
PrintedBreak(N) == [Plain("break") EXCEPT !.label = N]
PrintedPush(region) == [Plain("push") EXCEPT !.region = region]

\* the recording of a try/finally statement with the bodies a and b
TryFinallyRecorded ==
    /\ operations = <<Operation("Statement", Undefined, CallerNode("a")),
                      Operation("Break", 3, NoNode),
                      Operation("Statement", Undefined, CallerNode("b")),
                      Operation("Endfinally", Undefined, NoNode)>>
    /\ blockActions = <<"Open", "Close">>
    /\ blockOffsets = <<0, 3>>
    /\ Len(heap) = 1
    /\ heap[1].kind = "Exception"
    /\ heap[1].catchVariable = NoText

C13_TryFinally ==
    (built /\ TryFinallyRecorded) =>
        /\ Len(clauses) = 3
        /\ PrintedCase(0) = <<Plain("trys"), PrintedPush(<<0, Undefined, 1, 2>>),
                              PrintedNode("a"), PrintedBreak(2)>>
        /\ PrintedCase(1) = <<PrintedNode("b"), Plain("endfinally")>>
        /\ PrintedCase(2) = <<Plain("return")>>
        /\ \A N \in 0..2 : ~HasFixup(N)

C13_Witness == built /\ TryFinallyRecorded /\ Len(clauses) = 3

(***************************************************************************)
(* C14: for the recording beginExceptionBlock; Statement(a);               *)
(* beginCatchBlock(e); Statement(b); endExceptionBlock, the try case       *)
(* pushes a protected region whose catch slot is populated and ends with a *)
(* break to endLabel; the catch case begins with e = __state.error, then   *)
(* b, then a break to endLabel; and endLabel is the case that follows the  *)
(* catch case.                                                             *)
(***************************************************************************)
BindsError == GeneratedNode("${variable} = __state.error;", "e")

\* the recording of a try/catch statement with the bodies a and b
TryCatchRecorded ==
    /\ operations = <<Operation("Statement", Undefined, CallerNode("a")),
                      Operation("Break", 3, NoNode),
                      Operation("Statement", Undefined, BindsError),
                      Operation("Statement", Undefined, CallerNode("b")),
                      Operation("Break", 3, NoNode)>>
    /\ blockActions = <<"Open", "Close">>
    /\ blockOffsets = <<0, 4>>
    /\ Len(heap) = 1
    /\ heap[1].kind = "Exception"
    /\ heap[1].catchVariable = "e"

C14_TryCatch ==
    (built /\ TryCatchRecorded) =>
        LET exception == heap[1]
            try == CaseOf(exception.startLabel)
            catch == CaseOf(exception.catchLabel)
            end == CaseOf(exception.endLabel)
        IN /\ catch \in 0..(Len(clauses) - 1)
           /\ end = catch + 1
           /\ PrintedCase(try) = <<Plain("trys"),
                                   PrintedPush(<<try, catch, Undefined, end>>),
                                   PrintedNode("a"), PrintedBreak(end)>>
           /\ PrintedCase(catch) = <<[Plain("statement") EXCEPT !.expr = BindsError],
                                     PrintedNode("b"), PrintedBreak(end)>>

C14_Witness == built /\ TryCatchRecorded /\ Len(clauses) = 3

(***************************************************************************)
(* C15: the entry label is bound to operation index 0 from construction    *)
(* on, so every built body has a case 0, which is the entry label's; when  *)
(* nothing was recorded the body is exactly one case, case 0, whose only   *)
(* statement is return ["return"].                                         *)
(***************************************************************************)
EntryLabel == 1

NothingRecorded == operations = <<>> /\ blockActions = <<>>

C15_EntryCase ==
    /\ labels[EntryLabel] = 0
    /\ built => (Len(clauses) >= 1 /\ CaseOf(EntryLabel) = 0)
    /\ (built /\ NothingRecorded) => (Len(clauses) = 1 /\ PrintedCase(0) = <<Plain("return")>>)

C15_Witness == built /\ NothingRecorded /\ Len(labels) = 1 /\ Len(clauses) = 1

(***************************************************************************)
(* C16: the statement __state.trys = [] is in the output exactly once, as  *)
(* the first statement of case 0, if beginExceptionBlock was ever called,  *)
(* and not at all otherwise; it comes before every __state.trys.push in    *)
(* output order.                                                           *)
(***************************************************************************)
\* the places <<clause, statement>> of the __state.trys = [] statements
TrysInits ==
    {place \in (1..Len(clauses)) \X (1..Len(operations) + Len(blockActions) + 2) :
        /\ place[2] <= Len(clauses[place[1]])
        /\ clauses[place[1]][place[2]].kind = "trys"}

\* output order: case by case, statement by statement
Before(first, second) ==
    first[1] < second[1] \/ (first[1] = second[1] /\ first[2] < second[2])

C16_TrysInitializedOnce ==
    built =>
        /\ ExceptionBlocks # {} => TrysInits = {<<1, 1>>}
        /\ ExceptionBlocks = {} => TrysInits = {}
        /\ \A init \in TrysInits, push \in Pushes : Before(init, push)

\* a try statement after the first case: its push is not in case 0
C16_Witness ==
    /\ built
    /\ TrysInits # {}
    /\ \E push \in Pushes : push[1] > 1

(***************************************************************************)
(* C17: after any sequence of declareLocal and cacheExpression calls, the  *)
(* names that the generator made (__l0, __l1, ...) are pairwise distinct   *)
(* and none of them is the name of a local that the caller named, so the   *)
(* generator brings no duplicate into the var declaration.  It fails: a    *)
(* caller may name a local __l0.                                           *)
(***************************************************************************)
C17_GeneratedNamesFresh ==
    /\ \A i \in 1..Len(locals), j \in 1..Len(locals) :
        i # j => locals[i].text # locals[j].text
    /\ \A i \in 1..Len(locals), j \in 1..Len(namedLocals) :
        locals[i].text # namedLocals[j].text

(***************************************************************************)
(* C18: every label that the generator allocates for a block (startLabel,  *)
(* endLabel, catchLabel and finallyLabel of an exception block, breakLabel *)
(* of a Break or Continue block) is marked when the block is closed at the *)
(* latest; endLabel and breakLabel are bound to operations.length at the   *)
(* close; so when the function is built with an empty live stack, each of  *)
(* these labels has a case number in [0, clauses.length).                  *)
(***************************************************************************)
AllocatedLabels(block) ==
    IF block.kind = "Exception"
    THEN {label \in {block.startLabel, block.endLabel, block.catchLabel,
                     block.finallyLabel} : label > 0}
    ELSE IF block.kind \in {"Break", "Continue"} THEN {block.breakLabel}
    ELSE {}

\* the label that the close of a block marks
ClosingLabels(block) ==
    IF block.kind = "Exception" THEN {block.endLabel}
    ELSE IF block.kind \in {"Break", "Continue"} THEN {block.breakLabel}
    ELSE {}

Live == {blockStack[i] : i \in 1..Len(blockStack)}

C18_CloseStep ==
    \A b \in Live :
        (\A i \in 1..Len(blockStack') : blockStack'[i] # b) =>
            /\ \A label \in AllocatedLabels(heap'[b]) : labels'[label] # Unbound
            /\ \A label \in ClosingLabels(heap'[b]) : labels'[label] = Len(operations')

C18_AllBlocksResolved ==
    (built /\ blockStack = <<>>) =>
        \A b \in 1..Len(heap) : \A label \in AllocatedLabels(heap[b]) : Resolved(label)

C18_AllocatedLabelsMarked == [][C18_CloseStep]_vars /\ []C18_AllBlocksResolved

\* built after a try/catch or try/finally and a Break or Continue block were closed
C18_Witness ==
    /\ built
    /\ blockStack = <<>>
    /\ \E b \in ExceptionBlocks : Cardinality(AllocatedLabels(heap[b])) >= 3
    /\ \E b \in 1..Len(heap) : heap[b].kind \in {"Break", "Continue"}

(***************************************************************************)
(* C19: in every state of the recorder, the live block stack is, bottom to *)
(* top, the blocks whose Open event has no Close event yet, in the order   *)
(* of the log; every begin*Block appends one Open event and pushes the     *)
(* same block, every end*Block that passes its assertion pops the top      *)
(* block and appends one Close event of that block; and the offsets of the *)
(* events never decrease along the log.                                    *)
(***************************************************************************)
\* the events that opened a block which no later event closed, in log order
OpenEvents ==
    SelectSeq([i \in 1..Len(blockActions) |-> i],
              LAMBDA i : blockActions[i] = "Open" /\ ClosesOf(i) = {})

StackOfLog == [k \in 1..Len(OpenEvents) |-> blocks[OpenEvents[k]]]

C19_Lockstep ==
    /\ blockStack = StackOfLog
    /\ \A i \in Events, j \in Events : i < j => blockOffsets[i] <= blockOffsets[j]

BeginStep ==
    \/ beginExceptionBlock
    \/ \E labelText \in Texts \union {NoText} :
        \/ beginScriptContinueBlock(labelText)
        \/ beginScriptBreakBlock(labelText)
        \/ beginBreakBlock(labelText)
        \/ \E continueLabel \in Held : beginContinueBlock(continueLabel, labelText)

EndStep ==
    \/ endExceptionBlock
    \/ endScriptContinueBlock
    \/ endScriptBreakBlock
    \/ endContinueBlock
    \/ endBreakBlock

\* one event is appended to the log, of an action on a block
Logged(action, block) ==
    /\ blockActions' = Append(blockActions, action)
    /\ blocks' = Append(blocks, block)
    /\ Len(blockOffsets') = Len(blockOffsets) + 1

\* the step pushes one block and logs its Open event
Pushed ==
    /\ Len(blockStack') = Len(blockStack) + 1
    /\ SubSeq(blockStack', 1, Len(blockStack)) = blockStack
    /\ Logged("Open", blockStack'[Len(blockStack')])

\* the step pops the top block and logs its Close event
Popped ==
    /\ blockStack # <<>>
    /\ blockStack' = SubSeq(blockStack, 1, Len(blockStack) - 1)
    /\ Logged("Close", blockStack[Len(blockStack)])

\* a step in which an assertion fails logs nothing; any other step of a
\* begin*Block pushes, any other step of an end*Block pops, and no other
\* step touches the stack or the log
C19_BlockStep ==
    IF failed'
    THEN UNCHANGED <<blockStack, blocks, blockActions, blockOffsets>>
    ELSE /\ Pushed \/ ~BeginStep
         /\ Popped \/ ~EndStep
         /\ \/ UNCHANGED <<blockStack, blocks, blockActions, blockOffsets>>
            \/ BeginStep
            \/ EndStep

C19_StackFollowsLog == [][C19_BlockStep]_vars /\ []C19_Lockstep

\* a live block opened after another was closed, with events at two offsets
C19_Witness ==
    /\ blockStack = <<2>>
    /\ Closes # {}
    /\ \E i \in Events, j \in Events : blockOffsets[i] < blockOffsets[j]

(***************************************************************************)
(* C20, as claimed: in every case of the output, a statement that leaves   *)
(* the case unconditionally (return ["break", L], return ["yield", ..],    *)
(* return ["endfinally"], return ["return", ..], throw) is the last        *)
(* statement of the case.  It fails: the synthetic return ["return"] is    *)
(* written after a trailing break, yield or endfinally, in the same case.  *)
(***************************************************************************)
AbruptKinds == {"break", "yield", "endfinally"}
LeavingKinds == AbruptKinds \union {"return", "throw"}

\* the places <<clause, statement>> of the statements that leave their case
Leaving ==
    {place \in (1..Len(clauses)) \X (1..Len(operations) + Len(blockActions) + 2) :
        /\ place[2] <= Len(clauses[place[1]])
        /\ clauses[place[1]][place[2]].kind \in LeavingKinds}

IsLast(place) == place[2] = Len(clauses[place[1]])

C20_LeavingIsLast == built => \A place \in Leaving : IsLast(place)

(***************************************************************************)
(* C20, amended: a statement that leaves the case unconditionally is the   *)
(* last statement of its case, except that in the last case a break, yield *)
(* or endfinally may be followed by the synthetic return ["return"], which *)
(* is then the last statement; no fix-up, __state.trys.push or statement   *)
(* of an operation follows a leaving statement.                            *)
(***************************************************************************)
\* the statement after a place is the synthetic return, and the body ends with it
BeforeSyntheticReturn(place) ==
    /\ place[1] = Len(clauses)
    /\ place[2] = Len(clauses[place[1]]) - 1
    /\ clauses[place[1]][place[2]].kind \in AbruptKinds
    /\ LastStatement = Statement("return", Undefined, NoNode, NoRegion, Len(operations))

C20_LeavingIsLastOrBeforeReturn ==
    built => \A place \in Leaving : IsLast(place) \/ BeforeSyntheticReturn(place)

\* a case that ends with a leaving statement, and a last case where the
\* synthetic return follows a break
C20_Witness ==
    /\ built
    /\ Len(clauses) >= 2
    /\ \E place \in Leaving : place[1] = 1 /\ IsLast(place)
    /\ \E place \in Leaving :
        /\ ~IsLast(place)
        /\ clauses[place[1]][place[2]].kind = "break"

(***************************************************************************)
(* C21: for every live block stack and argument, findBreakTarget returns   *)
(* 0 or a label id >= 1 that defineLabel allocated; it never returns a     *)
(* negative or unallocated id, also when the block that matches is a       *)
(* ScriptBreak or ScriptContinue block.  It fails: the script blocks hold  *)
(* the break label -1, and findBreakTarget returns it.                     *)
(***************************************************************************)
\* the label ids that defineLabel has returned
Allocated == 1..Len(labels)

C21_BreakTargetIsLabelOrZero ==
    \A labelText \in Texts \union {NoText} :
        \/ findBreakTarget(labelText) = NoTarget
        \/ findBreakTarget(labelText) \in Allocated

(***************************************************************************)
(* C22: pushLocation(loc) followed later by the matching popLocation()     *)
(* restores relatedLocation to the value it had just before the push, for  *)
(* every value it had, the initial unset location included, for every loc, *)
(* and for nested pairs; an operation emitted after the pop is recorded    *)
(* with the restored location.  It fails: popLocation restores through     *)
(* setLocation, which ignores the unset location, so a push made while no  *)
(* location was set is not undone.                                         *)
(***************************************************************************)
\* the value that the matching pushLocation saved: with nested pairs, the top
SavedLocation == locationStack[Len(locationStack)]

C22_LocationStep ==
    /\ (\E location \in Locations \union {NoLocation} : pushLocation(location)) =>
            locationStack' = Append(locationStack, relatedLocation)
    /\ (popLocation /\ locationStack # <<>>) =>
            /\ relatedLocation' = SavedLocation
            /\ locationStack' = SubSeq(locationStack, 1, Len(locationStack) - 1)
    /\ Len(operations') > Len(operations) =>
            operations'[Len(operations')].location = relatedLocation

C22_PopRestoresLocation == [][C22_LocationStep]_vars

==========================================================================
